---------------------------- MODULE Spec2Model ----------------------------
(***************************************************************************)
(* Token codec of art-tag-scanner (src/app.js): packDateAmount,            *)
(* b64UrlEncode / b64UrlDecode, encodeV1 / encodeV2, and the symmetric     *)
(* decoders the specification adds on top of b64UrlDecode.                 *)
(*                                                                         *)
(* JavaScript values are records [t, hi, lo, half]:                        *)
(*   t = "num"  : the number hi * 65536 + lo (+ 0.5 when half), 0 <= lo    *)
(*                < 65536, so that numbers beyond 32 bits are represented  *)
(*   t = "nan", "inf", "ninf", "null", "undefined" : the other values.     *)
(* A BigInt is its sequence of bits, least significant first.              *)
(* A string is a sequence of characters, each a one-character string; a    *)
(* character that cannot be printed is named by its code point ("U+0009"). *)
(* Each call of a codec function is one step from the idle state, and      *)
(* Return leads back to it: the codec keeps nothing between calls.         *)
(*                                                                         *)
(* The second specification, UISpec, is the page around the codec: the     *)
(* date, price, half-off, version, variant and token fields, state.rows,   *)
(* and the click handlers of the Generate and Save buttons, which are the  *)
(* only callers of encodeV1 and encodeV2.                                  *)
(***************************************************************************)
EXTENDS Integers, Sequences, FiniteSets, TLC

VARIABLES op, yyyy, mm, dd, cents, variant, bytes, s, ret

\* The page: the six input fields, state.rows, the handler that ran last,
\* one earlier codec call kept for comparison, and the number of events.
VARIABLES date, price, halfOff, version, variantField, tokenField, rows,
          handler, kept, events

uiVars == <<date, price, halfOff, version, variantField, tokenField, rows,
            handler, kept, events>>

vars == <<op, yyyy, mm, dd, cents, variant, bytes, s, ret, uiVars>>

\* ------------------------------------------------------------------------
\* JavaScript numbers
\* ------------------------------------------------------------------------

Big(h, l) == [t |-> "num", hi |-> h, lo |-> l, half |-> FALSE]

N(n) == Big(n \div 65536, n % 65536)

Frac(n) == [t |-> "num", hi |-> n \div 65536, lo |-> n % 65536, half |-> TRUE]

Other(tag) == [t |-> tag, hi |-> 0, lo |-> 0, half |-> FALSE]

NaN == Other("nan")

Null == Other("null")

Undefined == Other("undefined")

Infinity == Other("inf")

NegInfinity == Other("ninf")

\* Number.isInteger(x)
NumberIsInteger(x) == x.t = "num" /\ ~x.half

\* a <= b on numbers (false when either side is NaN)
LessEq(a, b) ==
    /\ a.t = "num"
    /\ b.t = "num"
    /\ \/ a.hi < b.hi
       \/ a.hi = b.hi /\ a.lo < b.lo
       \/ a.hi = b.hi /\ a.lo = b.lo /\ (a.half => b.half)

\* the integer value of a number known to fit the checker's integers
IntOf(x) == x.hi * 65536 + x.lo

\* isNaN(x): ToNumber(x) is NaN (ToNumber(undefined) is NaN, ToNumber(null) is 0)
IsNaN(x) == x.t \in {"nan", "undefined"}

\* x == null
LooseEqNull(x) == x.t \in {"null", "undefined"}

\* x | 0 : ToInt32(x). NaN, the infinities and null give 0; a number is
\* truncated toward zero, reduced modulo 2^32 and read as a signed 32-bit
\* integer.
ToInt32(x) ==
    IF x.t # "num" THEN 0
    ELSE LET up  == x.half /\ x.hi < 0            \* trunc(n + 0.5) = n + 1 for n < 0
             lo1 == IF up THEN (x.lo + 1) % 65536 ELSE x.lo
             hi1 == IF up /\ x.lo = 65535 THEN x.hi + 1 ELSE x.hi
             h16 == hi1 % 65536
             hs  == IF h16 >= 32768 THEN h16 - 65536 ELSE h16
         IN  hs * 65536 + lo1

MathMin(a, b) == IF a <= b THEN a ELSE b

MathMax(a, b) == IF a >= b THEN a ELSE b

\* storing a number into a Uint8Array element
ToUint8(n) == n % 256

\* ------------------------------------------------------------------------
\* BigInt arithmetic on bit sequences (least significant bit first)
\* ------------------------------------------------------------------------

RECURSIVE BitsOf(_)
BitsOf(n) == IF n = 0 THEN << >> ELSE <<n % 2>> \o BitsOf(n \div 2)

\* BigInt(x) for a non-negative integer x
BigInt(x) == BitsOf(IntOf(x))

\* v << k
ShiftLeft(v, k) == [i \in 1..k |-> 0] \o v

\* v >> k
ShiftRight(v, k) == SubSeq(v, k + 1, Len(v))

\* a | b
BitOr(a, b) ==
    [i \in 1..MathMax(Len(a), Len(b)) |->
        IF (i <= Len(a) /\ a[i] = 1) \/ (i <= Len(b) /\ b[i] = 1) THEN 1 ELSE 0]

BitAt(v, i) == IF i <= Len(v) THEN v[i] ELSE 0

\* Number(v & 0xFFn)
LowByte(v) ==
    BitAt(v, 1) + 2 * BitAt(v, 2) + 4 * BitAt(v, 3) + 8 * BitAt(v, 4)
    + 16 * BitAt(v, 5) + 32 * BitAt(v, 6) + 64 * BitAt(v, 7) + 128 * BitAt(v, 8)

\* ------------------------------------------------------------------------
\* Results of a call: a value or a thrown error
\* ------------------------------------------------------------------------

NoRet == [ok |-> FALSE, err |-> "", bytes |-> << >>, token |-> << >>,
          variant |-> -1, fields |-> << >>]

Throw(msg) == [NoRet EXCEPT !.err = msg]

RetBytes(b) == [NoRet EXCEPT !.ok = TRUE, !.bytes = b]

RetToken(tok) == [NoRet EXCEPT !.ok = TRUE, !.token = tok]

RetTokenVariant(tok, v) == [NoRet EXCEPT !.ok = TRUE, !.token = tok, !.variant = v]

\* ------------------------------------------------------------------------
\* packDateAmount
\* ------------------------------------------------------------------------

\* for (let i=5;i>=0;i--) { out[i] = Number(v & 0xFFn); v >>= 8n; }
\* (out is indexed from 1 here, so out[i + 1] is the code's out[i])
RECURSIVE PackLoop(_, _, _)
PackLoop(v, i, out) ==
    IF i < 0 THEN out
    ELSE PackLoop(ShiftRight(v, 8), i - 1,
                  [out EXCEPT ![i + 1] = ToUint8(LowByte(v))])

\* mutant of YearOk: the upper bound taken as exclusive
YearOk_Exclusive(y) ==
    NumberIsInteger(y) /\ LessEq(N(0), y) /\ LessEq(y, N(16382))

YearOk(y) == NumberIsInteger(y) /\ LessEq(N(0), y) /\ LessEq(y, N(16383))

MonthOk(m) == NumberIsInteger(m) /\ LessEq(N(1), m) /\ LessEq(m, N(12))

DayOk(d) == NumberIsInteger(d) /\ LessEq(N(1), d) /\ LessEq(d, N(31))

\* (1<<25)-1
CentsOk(c) == NumberIsInteger(c) /\ LessEq(N(0), c) /\ LessEq(c, N(2^25 - 1))

\* mutant of PackedValue: the month shifted by 29 instead of 30
PackedValue_MonthShift29(y, m, d, c) ==
    BitOr(BitOr(BitOr(ShiftLeft(BigInt(y), 34), ShiftLeft(BigInt(m), 29)),
                ShiftLeft(BigInt(d), 25)),
          BigInt(c))

\* v = (BigInt(yyyy) << 34n) | (BigInt(mm) << 30n) | (BigInt(dd) << 25n) | BigInt(cents)
PackedValue(y, m, d, c) ==
    BitOr(BitOr(BitOr(ShiftLeft(BigInt(y), 34), ShiftLeft(BigInt(m), 30)),
                ShiftLeft(BigInt(d), 25)),
          BigInt(c))

\* mutant of packDateAmount: the amount validated first
packDateAmount_AmountFirst(y, m, d, c) ==
    IF ~CentsOk(c) THEN Throw("Amount too large (max 33,554,431 cents)")
    ELSE IF ~YearOk(y) THEN Throw("Year out of range (0..16383)")
    ELSE IF ~MonthOk(m) THEN Throw("Month must be 1..12")
    ELSE IF ~DayOk(d) THEN Throw("Day must be 1..31")
    ELSE RetBytes(PackLoop(PackedValue(y, m, d, c), 5, [i \in 1..6 |-> 0]))

packDateAmount(y, m, d, c) ==
    IF ~YearOk(y) THEN Throw("Year out of range (0..16383)")
    ELSE IF ~MonthOk(m) THEN Throw("Month must be 1..12")
    ELSE IF ~DayOk(d) THEN Throw("Day must be 1..31")
    ELSE IF ~CentsOk(c) THEN Throw("Amount too large (max 33,554,431 cents)")
    ELSE RetBytes(PackLoop(PackedValue(y, m, d, c), 5, [i \in 1..6 |-> 0]))

\* ------------------------------------------------------------------------
\* Base64url (no padding)
\* ------------------------------------------------------------------------

\* the standard base64 alphabet of btoa / atob, sextet k at index k + 1
B64Alphabet ==
    << "A", "B", "C", "D", "E", "F", "G", "H", "I", "J", "K", "L", "M",
       "N", "O", "P", "Q", "R", "S", "T", "U", "V", "W", "X", "Y", "Z",
       "a", "b", "c", "d", "e", "f", "g", "h", "i", "j", "k", "l", "m",
       "n", "o", "p", "q", "r", "s", "t", "u", "v", "w", "x", "y", "z",
       "0", "1", "2", "3", "4", "5", "6", "7", "8", "9", "+", "/" >>

B64Char(k) == B64Alphabet[k + 1]

\* btoa(bin): 3 bytes give 4 characters; a last group of 2 bytes gives 3
\* characters and "=", a last single byte 2 characters and "==".
RECURSIVE btoa(_)
btoa(bin) ==
    IF Len(bin) = 0 THEN << >>
    ELSE IF Len(bin) = 1 THEN
        << B64Char(bin[1] \div 4), B64Char((bin[1] % 4) * 16), "=", "=" >>
    ELSE IF Len(bin) = 2 THEN
        << B64Char(bin[1] \div 4),
           B64Char((bin[1] % 4) * 16 + bin[2] \div 16),
           B64Char((bin[2] % 16) * 4), "=" >>
    ELSE
        << B64Char(bin[1] \div 4),
           B64Char((bin[1] % 4) * 16 + bin[2] \div 16),
           B64Char((bin[2] % 16) * 4 + bin[3] \div 64),
           B64Char(bin[3] % 64) >> \o btoa(SubSeq(bin, 4, Len(bin)))

\* mutant of ReplaceAll: the pattern without the g flag, which replaces the
\* first occurrence only
ReplaceAll_FirstOnly(str, from, to) ==
    [i \in 1..Len(str) |->
        IF str[i] = from /\ (\A j \in 1..(i - 1) : str[j] # from)
        THEN to ELSE str[i]]

\* str.replace(/from/g, to) for a one-character pattern
ReplaceAll(str, from, to) ==
    [i \in 1..Len(str) |-> IF str[i] = from THEN to ELSE str[i]]

\* mutant of StripTrailingEq: the padding left in place
StripTrailingEq_Keep(str) == str

\* str.replace(/=+$/, '')
RECURSIVE StripTrailingEq(_)
StripTrailingEq(str) ==
    IF Len(str) > 0 /\ str[Len(str)] = "="
    THEN StripTrailingEq(SubSeq(str, 1, Len(str) - 1))
    ELSE str

\* for (let b of bytes) bin += String.fromCharCode(b)
BinaryString(b) == [i \in 1..Len(b) |-> b[i] % 65536]

b64UrlEncode(b) ==
    StripTrailingEq(ReplaceAll(ReplaceAll(btoa(BinaryString(b)), "+", "-"), "/", "_"))

\* ------------------------------------------------------------------------
\* Short ID encoders (v1/v2)
\* ------------------------------------------------------------------------

encodeV1(y, m, d, c) ==
    LET b6 == packDateAmount(y, m, d, c)
    IN  IF ~b6.ok THEN b6 ELSE RetToken(b64UrlEncode(b6.bytes))

\* (variant == null || isNaN(variant)): the variant is drawn at random
VariantIsAbsent(v) == LooseEqNull(v) \/ IsNaN(v)

\* mutant of ResolveVariant: the draw is used whatever the caller passed
ResolveVariant_AlwaysRandom(v, rnd) == rnd

\* rnd is Math.floor(Math.random()*256), a value in 0..255
ResolveVariant(v, rnd) ==
    IF VariantIsAbsent(v) THEN rnd % 256
    ELSE MathMax(0, MathMin(255, ToInt32(v)))

\* mutant of encodeV2: the variant byte put behind the payload
encodeV2_VariantLast(y, m, d, c, v, rnd) ==
    LET b6 == packDateAmount(y, m, d, c)
        vb == ResolveVariant(v, rnd)
        buf == b6.bytes \o <<ToUint8(vb)>>
    IN  IF ~b6.ok THEN b6 ELSE RetTokenVariant(b64UrlEncode(buf), vb)

encodeV2(y, m, d, c, v, rnd) ==
    LET b6 == packDateAmount(y, m, d, c)
        vb == ResolveVariant(v, rnd)
        buf == <<ToUint8(vb)>> \o b6.bytes
    IN  IF ~b6.ok THEN b6 ELSE RetTokenVariant(b64UrlEncode(buf), vb)

\* ------------------------------------------------------------------------
\* b64UrlDecode
\* ------------------------------------------------------------------------

\* ASCII whitespace, which atob removes: TAB, LF, FF, CR, SPACE
AsciiWhitespace == {"U+0009", "U+000A", "U+000C", "U+000D", " "}

\* what String.prototype.trim removes: WhiteSpace and LineTerminator
TrimWhitespace ==
    AsciiWhitespace \cup {"U+000B", "U+00A0", "U+FEFF", "U+2028", "U+2029"}

RECURSIVE TrimStart(_)
TrimStart(str) ==
    IF Len(str) > 0 /\ str[1] \in TrimWhitespace
    THEN TrimStart(SubSeq(str, 2, Len(str)))
    ELSE str

RECURSIVE TrimEnd(_)
TrimEnd(str) ==
    IF Len(str) > 0 /\ str[Len(str)] \in TrimWhitespace
    THEN TrimEnd(SubSeq(str, 1, Len(str) - 1))
    ELSE str

\* s.trim()
Trim(str) == TrimEnd(TrimStart(str))

\* while (s.length % 4) s += '='
RECURSIVE PadLoop(_)
PadLoop(str) == IF Len(str) % 4 # 0 THEN PadLoop(str \o <<"=">>) ELSE str

IsB64Char(c) == \E k \in 1..64 : B64Alphabet[k] = c

Sextet(c) == (CHOOSE k \in 1..64 : B64Alphabet[k] = c) - 1

\* the bytes of a run of base64 characters: 4 characters give 3 bytes; a last
\* group of 2 characters gives 1 byte and one of 3 characters 2 bytes, the
\* bits left over being discarded.
RECURSIVE DecodeGroups(_)
DecodeGroups(d) ==
    IF Len(d) < 2 THEN << >>
    ELSE IF Len(d) = 2 THEN
        << Sextet(d[1]) * 4 + Sextet(d[2]) \div 16 >>
    ELSE IF Len(d) = 3 THEN
        << Sextet(d[1]) * 4 + Sextet(d[2]) \div 16,
           (Sextet(d[2]) % 16) * 16 + Sextet(d[3]) \div 4 >>
    ELSE
        << Sextet(d[1]) * 4 + Sextet(d[2]) \div 16,
           (Sextet(d[2]) % 16) * 16 + Sextet(d[3]) \div 4,
           (Sextet(d[3]) % 4) * 64 + Sextet(d[4]) >>
        \o DecodeGroups(SubSeq(d, 5, Len(d)))

\* when the length is a multiple of 4, one or two "=" at the end are removed
StripPadding(d) ==
    IF Len(d) % 4 # 0 THEN d
    ELSE IF Len(d) >= 2 /\ d[Len(d)] = "=" /\ d[Len(d) - 1] = "="
         THEN SubSeq(d, 1, Len(d) - 2)
    ELSE IF Len(d) >= 1 /\ d[Len(d)] = "="
         THEN SubSeq(d, 1, Len(d) - 1)
    ELSE d

\* atob(data): the forgiving base64 decode of the platform
atob(data) ==
    LET d1 == SelectSeq(data, LAMBDA c : c \notin AsciiWhitespace)
        d2 == StripPadding(d1)
    IN  IF Len(d2) % 4 = 1 THEN Throw("InvalidCharacterError")
        ELSE IF \E i \in 1..Len(d2) : ~IsB64Char(d2[i])
             THEN Throw("InvalidCharacterError")
        ELSE RetBytes(DecodeGroups(d2))

\* mutant of b64UrlDecode: "_" not turned back into "/"
b64UrlDecode_KeepUnderscore(str) ==
    LET s1 == ReplaceAll(Trim(str), "-", "+")
        bin == atob(PadLoop(s1))
    IN  IF ~bin.ok THEN bin
        ELSE RetBytes([i \in 1..Len(bin.bytes) |-> ToUint8(bin.bytes[i])])

b64UrlDecode(str) ==
    LET s1 == ReplaceAll(ReplaceAll(Trim(str), "-", "+"), "_", "/")
        bin == atob(PadLoop(s1))
    IN  IF ~bin.ok THEN bin
        ELSE RetBytes([i \in 1..Len(bin.bytes) |-> ToUint8(bin.bytes[i])])

\* ------------------------------------------------------------------------
\* Decoders V1 / V2 (the symmetric decode of the specification, built on
\* b64UrlDecode)
\* ------------------------------------------------------------------------

RECURSIVE IntOfBits(_)
IntOfBits(v) == IF Len(v) = 0 THEN 0 ELSE v[1] + 2 * IntOfBits(SubSeq(v, 2, Len(v)))

\* the 48-bit integer held by 6 bytes, most significant byte first
BitsOfBytes(b) ==
    [i \in 1..(8 * Len(b)) |->
        (b[Len(b) - ((i - 1) \div 8)] \div (2 ^ ((i - 1) % 8))) % 2]

\* v & (2^k - 1)
LowBits(v, k) == SubSeq(v, 1, MathMin(k, Len(v)))

\* year = v >> 34, month = (v >> 30) & 0xF, day = (v >> 25) & 0x1F,
\* amount = v & 0x1FFFFFF
unpackDateAmount(b6) ==
    LET v == BitsOfBytes(b6)
    IN  << IntOfBits(ShiftRight(v, 34)),
           IntOfBits(LowBits(ShiftRight(v, 30), 4)),
           IntOfBits(LowBits(ShiftRight(v, 25), 5)),
           IntOfBits(LowBits(v, 25)) >>

decodeV1(str) ==
    LET b == b64UrlDecode(str)
    IN  IF ~b.ok \/ Len(b.bytes) # 6 THEN Throw("MalformedToken")
        ELSE [NoRet EXCEPT !.ok = TRUE, !.bytes = b.bytes,
                           !.fields = unpackDateAmount(b.bytes)]

decodeV2(str) ==
    LET b == b64UrlDecode(str)
    IN  IF ~b.ok \/ Len(b.bytes) # 7 THEN Throw("MalformedToken")
        ELSE [NoRet EXCEPT !.ok = TRUE, !.bytes = b.bytes,
                           !.variant = b.bytes[1],
                           !.fields = unpackDateAmount(SubSeq(b.bytes, 2, 7))]

\* ------------------------------------------------------------------------
\* Inputs of the calls
\* ------------------------------------------------------------------------

\* longest byte sequence handed to b64UrlEncode on its own
MaxBytesLen == 3

\* longest free-form string handed to the decoders
MaxShortLen == 3

\* most characters cut from the end of an issued token
MaxDrop == 2

Years == {N(-1), N(0), N(2024), N(16383), N(16384), Frac(2024), NaN}

Months == {N(0), N(1), N(2), N(3), N(12), N(13), Frac(1)}

Days == {N(0), N(1), N(7), N(30), N(31), N(32), Null}

Amounts == {N(-1), N(0), N(1999), N(33554431), N(33554432), Frac(1999), Undefined}

\* 2^31, 2^32 + 7 and -2^31 - 1 lie beyond 32 bits
Variants ==
    {Undefined, Null, NaN, Infinity, NegInfinity,
     N(-5), N(0), N(1), N(251), N(255), N(256), N(999), Frac(3), Frac(-3),
     Big(32768, 0), Big(65536, 7), Big(-32769, 65535)}

\* explicit variants of the tokens handed to decodeV2
DecodeVariants == {N(0), N(251), N(999)}

\* Math.floor(Math.random()*256)
RandomDraws == 0..255

SampleBytes == {0, 190, 239, 251, 255}

ByteSeqs == UNION {[1..n -> SampleBytes] : n \in 0..MaxBytesLen}

ShortChars == {"A", "-", "_", "+", "/", "=", " ", "!"}

ShortStrings == UNION {[1..n -> ShortChars] : n \in 0..MaxShortLen}

DamageChars == {"+", "/", "=", " ", "!", "A"}

\* an issued token as it may come back: intact, with one character replaced,
\* with a character added in front or behind, or cut short
Damaged(tok) ==
    {tok}
    \cup {[tok EXCEPT ![i] = c] : i \in 1..Len(tok), c \in DamageChars}
    \cup {tok \o <<c>> : c \in DamageChars}
    \cup {<<c>> \o tok : c \in DamageChars}
    \cup {SubSeq(tok, 1, Len(tok) - k) : k \in 1..MathMin(MaxDrop, Len(tok))}

\* ------------------------------------------------------------------------
\* The calls
\* ------------------------------------------------------------------------

\* A sample of what todayYMD() returns when the page is loaded.
Today == <<"2", "0", "2", "4", "0", "3", "0", "7">>

\* No codec call is kept.
NoCall == [fn |-> "none", args |-> << >>, ret |-> NoRet]

\* The page after initDefaults(): the date field holds today, the text
\* fields are empty, the box is unchecked and state.rows is empty.
FreshPage ==
    /\ date = Today
    /\ price = << >>
    /\ halfOff = FALSE
    /\ variantField = << >>
    /\ tokenField = << >>
    /\ rows = << >>
    /\ handler = "none"
    /\ kept = NoCall
    /\ events = 0

NoCodecCall ==
    /\ op = "idle"
    /\ yyyy = Undefined
    /\ mm = Undefined
    /\ dd = Undefined
    /\ cents = Undefined
    /\ variant = Undefined
    /\ bytes = << >>
    /\ s = << >>
    /\ ret = NoRet

Init ==
    /\ NoCodecCall
    /\ FreshPage
    /\ version = "v1"

Call(o, y, m, d, c, v, b, str, r) ==
    /\ op' = o
    /\ yyyy' = y
    /\ mm' = m
    /\ dd' = d
    /\ cents' = c
    /\ variant' = v
    /\ bytes' = b
    /\ s' = str
    /\ ret' = r
    /\ UNCHANGED uiVars

PackDateAmount ==
    /\ op = "idle"
    /\ \E y \in Years, m \in Months, d \in Days, c \in Amounts :
           Call("packDateAmount", y, m, d, c, Undefined, << >>, << >>,
                packDateAmount(y, m, d, c))

EncodeV1 ==
    /\ op = "idle"
    /\ \E y \in Years, m \in Months, d \in Days, c \in Amounts :
           Call("encodeV1", y, m, d, c, Undefined, << >>, << >>,
                encodeV1(y, m, d, c))

\* Math.random is reached only after packDateAmount has returned and only
\* when the variant is absent
EncodeV2 ==
    /\ op = "idle"
    /\ \E y \in Years, m \in Months, d \in Days, c \in Amounts, v \in Variants :
           \E rnd \in IF packDateAmount(y, m, d, c).ok /\ VariantIsAbsent(v)
                      THEN RandomDraws ELSE {0} :
               Call("encodeV2", y, m, d, c, v, << >>, << >>,
                    encodeV2(y, m, d, c, v, rnd))

B64UrlEncode ==
    /\ op = "idle"
    /\ \E b \in ByteSeqs :
           Call("b64UrlEncode", Undefined, Undefined, Undefined, Undefined,
                Undefined, b, << >>, RetToken(b64UrlEncode(b)))

B64UrlDecode ==
    /\ op = "idle"
    /\ \/ \E b \in ByteSeqs :
            \E str \in Damaged(b64UrlEncode(b)) :
              Call("b64UrlDecode", Undefined, Undefined, Undefined, Undefined,
                   Undefined, b, str, b64UrlDecode(str))
       \/ \E y \in Years, m \in Months, d \in Days, c \in Amounts :
            LET b6 == packDateAmount(y, m, d, c)
            IN  /\ b6.ok
                /\ \E buf \in {b6.bytes} \cup
                              {<<ResolveVariant(v, 0)>> \o b6.bytes :
                                   v \in DecodeVariants} :
                     Call("b64UrlDecode", y, m, d, c, Undefined, buf,
                          b64UrlEncode(buf), b64UrlDecode(b64UrlEncode(buf)))
       \/ \E str \in ShortStrings :
            Call("b64UrlDecode", Undefined, Undefined, Undefined, Undefined,
                 Undefined, << >>, str, b64UrlDecode(str))

DecodeV1 ==
    /\ op = "idle"
    /\ \/ \E y \in Years, m \in Months, d \in Days, c \in Amounts :
            LET e == encodeV1(y, m, d, c)
            IN  /\ e.ok
                /\ \E str \in Damaged(e.token) :
                     Call("decodeV1", y, m, d, c, Undefined, << >>, str,
                          decodeV1(str))
       \/ \E str \in ShortStrings :
            Call("decodeV1", Undefined, Undefined, Undefined, Undefined,
                 Undefined, << >>, str, decodeV1(str))

DecodeV2 ==
    /\ op = "idle"
    /\ \/ \E y \in Years, m \in Months, d \in Days, c \in Amounts,
             v \in DecodeVariants :
            LET e == encodeV2(y, m, d, c, v, 0)
            IN  /\ e.ok
                /\ \E str \in Damaged(e.token) :
                     Call("decodeV2", y, m, d, c, v, << >>, str, decodeV2(str))
       \/ \E str \in ShortStrings :
            Call("decodeV2", Undefined, Undefined, Undefined, Undefined,
                 Undefined, << >>, str, decodeV2(str))

\* the codec keeps no state between calls
Return ==
    /\ op # "idle"
    /\ op' = "idle"
    /\ yyyy' = Undefined
    /\ mm' = Undefined
    /\ dd' = Undefined
    /\ cents' = Undefined
    /\ variant' = Undefined
    /\ bytes' = << >>
    /\ s' = << >>
    /\ ret' = NoRet
    /\ UNCHANGED uiVars

Next ==
    \/ PackDateAmount
    \/ EncodeV1
    \/ EncodeV2
    \/ B64UrlEncode
    \/ B64UrlDecode
    \/ DecodeV1
    \/ DecodeV2
    \/ Return

Spec == Init /\ [][Next]_vars

\* ------------------------------------------------------------------------
\* Properties
\* ------------------------------------------------------------------------

\* x is an integer in lo..hi
InRange(x, lo, hi) ==
    x.t = "num" /\ x.half = FALSE /\ x.hi \in 0..512 /\ IntOf(x) \in lo..hi

ValidArgs ==
    /\ InRange(yyyy, 0, 16383)
    /\ InRange(mm, 1, 12)
    /\ InRange(dd, 1, 31)
    /\ InRange(cents, 0, 33554431)

ArgFields == <<IntOf(yyyy), IntOf(mm), IntOf(dd), IntOf(cents)>>

\* C1: for valid (year, month, day, amount) packDateAmount returns exactly 6
\* bytes which, read most significant byte first, are the 48-bit integer
\* year*2^34 + month*2^30 + day*2^25 + amount.  The integer is compared in
\* two 24-bit halves: its upper half is year*2^10 + month*2^6 + day*2 +
\* amount div 2^24, its lower half amount mod 2^24.
C1_PackLayout ==
    (op = "packDateAmount" /\ ValidArgs) =>
        /\ ret.ok
        /\ Len(ret.bytes) = 6
        /\ \A i \in 1..6 : ret.bytes[i] \in 0..255
        /\ ret.bytes[1] * 65536 + ret.bytes[2] * 256 + ret.bytes[3]
             = IntOf(yyyy) * 1024 + IntOf(mm) * 64 + IntOf(dd) * 2
               + IntOf(cents) \div 16777216
        /\ ret.bytes[4] * 65536 + ret.bytes[5] * 256 + ret.bytes[6]
             = IntOf(cents) % 16777216

\* packDateAmount(2024, 3, 7, 1999) has returned 1F A0 CE 00 07 CF
C1_Witness ==
    /\ op = "packDateAmount"
    /\ ArgFields = <<2024, 3, 7, 1999>>
    /\ ValidArgs
    /\ ret.bytes = <<31, 160, 206, 0, 7, 207>>

\* C2: round trip.  Decoding the token encodeV1 made of valid arguments gives
\* the arguments back; decoding the token encodeV2 made with an explicit
\* variant in 0..255 gives the arguments and that variant back; and
\* b64UrlDecode(b64UrlEncode(bytes)) is bytes.
C2_RoundTrip ==
    /\ (op = "decodeV1" /\ ValidArgs
          /\ s = encodeV1(yyyy, mm, dd, cents).token) =>
            /\ ret.ok
            /\ ret.fields = ArgFields
    /\ (op = "decodeV2" /\ ValidArgs /\ InRange(variant, 0, 255)
          /\ s = encodeV2(yyyy, mm, dd, cents, variant, 0).token) =>
            /\ ret.ok
            /\ ret.fields = ArgFields
            /\ ret.variant = IntOf(variant)
    /\ (op = "b64UrlDecode" /\ s = b64UrlEncode(bytes)) =>
            /\ ret.ok
            /\ ret.bytes = bytes

\* the largest valid arguments, whose token is "__8_____" after variant 251,
\* have been encoded and decoded back
C2_Witness ==
    /\ op = "decodeV2"
    /\ ArgFields = <<16383, 12, 31, 33554431>>
    /\ variant = N(251)
    /\ s = encodeV2(yyyy, mm, dd, cents, variant, 0).token
    /\ ret.ok
    /\ ret.variant = 251
    /\ ret.fields = <<16383, 12, 31, 33554431>>

\* C3: packDateAmount, encodeV1 and encodeV2 succeed exactly when year is an
\* integer in 0..16383, month in 1..12, day in 1..31 and amount in
\* 0..33554431; month and day are checked independently of each other.
C3_AcceptsExactlyTheRanges ==
    op \in {"packDateAmount", "encodeV1", "encodeV2"} =>
        /\ ret.ok <=> ValidArgs
        /\ yyyy = N(16384) => ~ret.ok
        /\ cents = N(33554432) => ~ret.ok
        /\ dd \in {N(0), N(32)} => ~ret.ok
        /\ mm \in {N(0), N(13)} => ~ret.ok
        /\ (yyyy = N(16383) /\ InRange(mm, 1, 12) /\ InRange(dd, 1, 31)
              /\ cents = N(33554431)) => ret.ok

\* year 16383, February 30 and amount 33554431 have been accepted
C3_Witness ==
    /\ op = "packDateAmount"
    /\ ArgFields = <<16383, 2, 30, 33554431>>
    /\ ValidArgs
    /\ ret.ok

\* the message of the first violated constraint, in the order year, month,
\* day, amount
FirstViolation ==
    IF ~InRange(yyyy, 0, 16383) THEN "Year out of range (0..16383)"
    ELSE IF ~InRange(mm, 1, 12) THEN "Month must be 1..12"
    ELSE IF ~InRange(dd, 1, 31) THEN "Day must be 1..31"
    ELSE IF ~InRange(cents, 0, 33554431)
         THEN "Amount too large (max 33,554,431 cents)"
    ELSE ""

\* C4: when several fields are out of range at once the error reported is
\* that of the first violated constraint in the order year, month, day,
\* amount, each constraint having a message of its own.
C4_FirstViolationReported ==
    (op \in {"packDateAmount", "encodeV1", "encodeV2"} /\ ~ret.ok) =>
        /\ ret.err = FirstViolation
        /\ ret.err # ""

\* month, day and amount were all out of range and the month's error came out
C4_Witness ==
    /\ op = "packDateAmount"
    /\ InRange(yyyy, 0, 16383)
    /\ mm = N(13)
    /\ dd = N(0)
    /\ cents = N(33554432)
    /\ ~ret.ok
    /\ ret.err = "Month must be 1..12"

\* max(0, min(255, v)) of an integer v of any magnitude
ClampByte(v) == IF v.hi < 0 THEN 0 ELSE IF v.hi > 0 THEN 255 ELSE MathMin(255, v.lo)

\* C5: for every integer variant, of any magnitude, encodeV2 (of valid
\* date and amount) succeeds and returns variant = max(0, min(255, v)).
C5_ClampsEveryInteger ==
    (op = "encodeV2" /\ ValidArgs /\ NumberIsInteger(variant)) =>
        /\ ret.ok
        /\ ret.variant = ClampByte(variant)

\* C6: a successful encodeV2, whatever the variant argument, returns a
\* variant in 0..255 and the base64url encoding of exactly 7 bytes: the
\* returned variant, then the 6 bytes of packDateAmount, which are the bytes
\* encodeV1 encodes.
C6_V2TokenLayout ==
    (op = "encodeV2" /\ ret.ok) =>
        LET dec == b64UrlDecode(ret.token)
        IN  /\ ret.variant \in 0..255
            /\ dec.ok
            /\ Len(dec.bytes) = 7
            /\ dec.bytes[1] = ret.variant
            /\ SubSeq(dec.bytes, 2, 7) = packDateAmount(yyyy, mm, dd, cents).bytes
            /\ SubSeq(dec.bytes, 2, 7)
                 = b64UrlDecode(encodeV1(yyyy, mm, dd, cents).token).bytes
            /\ ret.token = b64UrlEncode(dec.bytes)

\* encodeV2 was called with NaN as variant and drew 137
C6_Witness ==
    /\ op = "encodeV2"
    /\ variant = NaN
    /\ ret.ok
    /\ ret.variant = 137
    /\ Len(ret.token) = 10

\* C7: for valid arguments encodeV1 returns 8 characters and encodeV2 a token
\* of 10 characters, for every variant byte.
C7_FixedLength ==
    /\ (op = "encodeV1" /\ ValidArgs) => (ret.ok /\ Len(ret.token) = 8)
    /\ (op = "encodeV2" /\ ValidArgs) => (ret.ok /\ Len(ret.token) = 10)

\* encodeV2 has returned a 10-character token for variant byte 255
C7_Witness ==
    /\ op = "encodeV2"
    /\ ValidArgs
    /\ ret.variant = 255
    /\ Len(ret.token) = 10

\* the characters of the base64url alphabet: A-Z, a-z, 0-9, "-" and "_"
UrlAlphabet == {B64Alphabet[k] : k \in 1..62} \cup {"-", "_"}

HasForeignChar(str) == \E i \in 1..Len(str) : str[i] \notin UrlAlphabet

\* C8: decoding a string that holds a character outside the base64url
\* alphabet fails.
C8_RejectsForeignChars ==
    (op \in {"b64UrlDecode", "decodeV1", "decodeV2"} /\ HasForeignChar(s)) =>
        ~ret.ok

\* C9: a V1 decode accepts only strings of exactly 8 characters, decoding to
\* 6 bytes, and a V2 decode only strings of exactly 10 characters, decoding
\* to 7 bytes; a 7-character string is rejected as V1.
C9_LengthMatchesVersion ==
    /\ (op = "decodeV1" /\ ret.ok) => (Len(s) = 8 /\ Len(ret.bytes) = 6)
    /\ (op = "decodeV2" /\ ret.ok) => (Len(s) = 10 /\ Len(ret.bytes) = 7)
    /\ (op = "decodeV1" /\ Len(s) = 7) => ~ret.ok

\* C10: b64UrlEncode returns only characters of the base64url alphabet:
\* every "+" of the standard encoding has become "-", every "/" "_", and the
\* "=" padding is gone while every other character is kept.
C10_UrlSafeOutput ==
    op \in {"b64UrlEncode", "encodeV1", "encodeV2"} /\ ret.ok =>
        /\ ~HasForeignChar(ret.token)
        /\ op = "b64UrlEncode" =>
             LET std == btoa(bytes)
             IN  /\ Len(ret.token) = Len(std) - Cardinality({i \in 1..Len(std) : std[i] = "="})
                 /\ \A i \in 1..Len(ret.token) :
                      ret.token[i] = IF std[i] = "+" THEN "-"
                                     ELSE IF std[i] = "/" THEN "_"
                                     ELSE std[i]

\* the bytes FB FF, "+/8=" in standard base64, have come out as "-_8"
C10_Witness ==
    /\ op = "b64UrlEncode"
    /\ bytes = <<251, 255>>
    /\ btoa(bytes) = <<"+", "/", "8", "=">>
    /\ ret.token = <<"-", "_", "8">>

\* ------------------------------------------------------------------------
\* The page: what the click handlers compute from the fields
\* ------------------------------------------------------------------------

DigitChars == <<"0", "1", "2", "3", "4", "5", "6", "7", "8", "9">>

\* \d
IsDigit(c) == \E k \in 1..10 : DigitChars[k] = c

DigitValue(c) == (CHOOSE k \in 1..10 : DigitChars[k] = c) - 1

\* \d+
IsAllDigits(str) == Len(str) > 0 /\ \A i \in 1..Len(str) : IsDigit(str[i])

\* mutant of DateTest: any run of digits passes, whatever its length
DateTest_AnyLength(d) == IsAllDigits(d)

\* /^\d{8}$/.test(d)
DateTest(d) == Len(d) = 8 /\ \A i \in 1..8 : IsDigit(d[i])

\* str.slice(from, to) for 0 <= from <= to
Slice(str, from, to) == SubSeq(str, from + 1, MathMin(to, Len(str)))

\* the longest prefix of digits
RECURSIVE DigitPrefix(_)
DigitPrefix(str) ==
    IF Len(str) > 0 /\ IsDigit(str[1])
    THEN <<str[1]>> \o DigitPrefix(SubSeq(str, 2, Len(str)))
    ELSE << >>

RECURSIVE DigitsValue(_)
DigitsValue(str) ==
    IF Len(str) = 0 THEN 0
    ELSE 10 * DigitsValue(SubSeq(str, 1, Len(str) - 1))
         + DigitValue(str[Len(str)])

\* parseInt(str, 10) of an unsigned string: leading white space is skipped,
\* the digits up to the first other character are read, none gives NaN
ParseInt(str) ==
    LET digits == DigitPrefix(TrimStart(str))
    IN  IF Len(digits) = 0 THEN NaN ELSE N(DigitsValue(digits))

\* \d{1,3}(?:,\d{3})* : up to three digits, then groups of a comma and
\* exactly three digits
RECURSIVE IsThousandGroups(_)
IsThousandGroups(str) ==
    \/ Len(str) = 0
    \/ /\ Len(str) >= 4
       /\ str[1] = ","
       /\ IsAllDigits(SubSeq(str, 2, 4))
       /\ IsThousandGroups(SubSeq(str, 5, Len(str)))

IsGrouped(str) ==
    \E k \in 1..MathMin(3, Len(str)) :
        /\ IsAllDigits(SubSeq(str, 1, k))
        /\ IsThousandGroups(SubSeq(str, k + 1, Len(str)))

\* the first group of the price pattern: (\d{1,3}(?:,\d{3})*|\d+)
IsWholePart(str) == IsGrouped(str) \/ IsAllDigits(str)

\* the optional tail of the price pattern: (?:[.,](\d{1,2}))?$
IsCentsPart(str) ==
    \/ Len(str) = 0
    \/ /\ Len(str) \in {2, 3}
       /\ str[1] \in {".", ","}
       /\ IsAllDigits(SubSeq(str, 2, Len(str)))

\* The places where m[1] can end. A whole part ends in a digit that no
\* "." follows and that is at least three digits after its last ",", so at
\* most one place matches and the order of the alternatives cannot matter.
PriceSplits(str) ==
    {k \in 1..Len(str) : /\ IsWholePart(SubSeq(str, 1, k))
                        /\ IsCentsPart(SubSeq(str, k + 1, Len(str)))}

\* m[1].replace(/,/g, '')
RemoveCommas(str) == SelectSeq(str, LAMBDA c : c # ",")

\* m[2].padEnd(2, '0')
PadEnd2(str) == IF Len(str) < 2 THEN str \o <<"0">> ELSE str

NoCents == [ok |-> FALSE, err |-> "", value |-> NaN]

priceStringToCents(str) ==
    LET t == Trim(str)
    IN  IF PriceSplits(t) = {}
        THEN [NoCents EXCEPT !.err = "Amount must look like 12 or 1,234.56"]
        ELSE LET k == CHOOSE j \in PriceSplits(t) : TRUE
                 m1 == SubSeq(t, 1, k)
                 m2 == SubSeq(t, k + 2, Len(t))
                 dollars == ParseInt(RemoveCommas(m1))
                 centsPart == IF Len(m2) > 0 THEN PadEnd2(m2)
                              ELSE <<"0", "0">>
             IN  [NoCents EXCEPT
                    !.ok = TRUE,
                    !.value = N(IntOf(dollars) * 100
                                + IntOf(ParseInt(centsPart)))]

\* x / 2 for a whole number x >= 0
HalfOf(x) ==
    LET n == IntOf(x)
    IN  IF n % 2 = 0 THEN N(n \div 2) ELSE Frac(n \div 2)

\* Math.round(x): a value ending in .5 goes up
MathRound(x) == IF x.t = "num" /\ x.half THEN N(IntOf(x) + 1) ELSE x

\* half ? Math.round(cents / 2) : cents
FinalCents(c, half) == IF half THEN MathRound(HalfOf(c)) ELSE c

\* Number(str) for the strings the variant field holds: white space only
\* is 0, digits are their value, digits followed by ".5" are the value and
\* a half, and text that is not a numeric literal is NaN.
ToNumber(str) ==
    LET t == Trim(str)
        n == Len(t)
    IN  IF n = 0 THEN N(0)
        ELSE IF IsAllDigits(t) THEN N(DigitsValue(t))
        ELSE IF /\ n >= 3
                /\ IsAllDigits(SubSeq(t, 1, n - 2))
                /\ t[n - 1] = "."
                /\ t[n] \in {"0", "5"}
             THEN IF t[n] = "5" THEN Frac(DigitsValue(SubSeq(t, 1, n - 2)))
                  ELSE N(DigitsValue(SubSeq(t, 1, n - 2)))
        ELSE NaN

\* String(n) for a byte n
RECURSIVE NumberToString(_)
NumberToString(n) ==
    IF n < 10 THEN <<DigitChars[n + 1]>>
    ELSE NumberToString(n \div 10) \o <<DigitChars[(n % 10) + 1]>>

\* ------------------------------------------------------------------------
\* The page: field values and events
\* ------------------------------------------------------------------------

\* The number of events (edits and clicks) a behaviour of the page holds
MaxEvents == 4

\* What is typed into the date field: today, today after a blank, seven
\* digits, and eight digits whose month is 13
DateValues ==
    {Today,
     <<" ">> \o Today,
     <<"2", "0", "2", "4", "0", "3", "7">>,
     <<"2", "0", "2", "4", "1", "3", "0", "7">>}

\* What is typed into the price field, or written there by the OCR handler
PriceValues ==
    {<< >>,
     <<"1", "9", ".", "9", "9">>,
     <<"1", ",", "2", "3", "4">>,
     <<"1", "2", ",", "5">>,
     <<"a", "b", "c">>}

\* The options of the version selector
VersionValues == {"v1", "v2"}

\* What is typed into the variant field
VariantValues == {<< >>, <<"7">>, <<"3", ".", "5">>, <<"a", "b", "c">>}

\* The bytes Math.random() is taken to produce inside a handler
HandlerDraws == {0, 137}

Codec == {"encodeV1", "encodeV2"}

\* A codec call as it is kept for comparison with a later one
CallRecord(fn, y, m, d, c, v, r) ==
    [fn |-> fn, args |-> <<y, m, d, c, v>>, ret |-> r,
     at |-> events + 1, nrows |-> Len(rows)]

\* The event makes no codec call; msg is the text of the alert, if any
MakesNoCall(msg) ==
    /\ op' = "idle"
    /\ yyyy' = Undefined
    /\ mm' = Undefined
    /\ dd' = Undefined
    /\ cents' = Undefined
    /\ variant' = Undefined
    /\ bytes' = << >>
    /\ s' = << >>
    /\ ret' = Throw(msg)
    /\ kept' = kept

\* The event calls the codec function fn, which returns or throws r
CodecCall(fn, y, m, d, c, v, r) ==
    /\ op' = fn
    /\ yyyy' = y
    /\ mm' = m
    /\ dd' = d
    /\ cents' = c
    /\ variant' = v
    /\ bytes' = << >>
    /\ s' = << >>
    /\ ret' = r
    /\ kept' \in IF kept = NoCall
                 THEN {kept, CallRecord(fn, y, m, d, c, v, r)}
                 ELSE {kept}

Event(h) ==
    /\ events' = events + 1
    /\ handler' = h

UIInit ==
    /\ NoCodecCall
    /\ FreshPage
    /\ version \in VersionValues

EditDate ==
    /\ events < MaxEvents
    /\ \E v \in DateValues \ {date} : date' = v
    /\ Event("none")
    /\ MakesNoCall("")
    /\ UNCHANGED <<price, halfOff, version, variantField, tokenField, rows>>

EditPrice ==
    /\ events < MaxEvents
    /\ \E v \in PriceValues \ {price} : price' = v
    /\ Event("none")
    /\ MakesNoCall("")
    /\ UNCHANGED <<date, halfOff, version, variantField, tokenField, rows>>

ToggleHalfOff ==
    /\ events < MaxEvents
    /\ halfOff' = ~halfOff
    /\ Event("none")
    /\ MakesNoCall("")
    /\ UNCHANGED <<date, price, version, variantField, tokenField, rows>>

SelectVersion ==
    /\ events < MaxEvents
    /\ \E v \in VersionValues \ {version} : version' = v
    /\ Event("none")
    /\ MakesNoCall("")
    /\ UNCHANGED <<date, price, halfOff, variantField, tokenField, rows>>

EditVariant ==
    /\ events < MaxEvents
    /\ \E v \in VariantValues \ {variantField} : variantField' = v
    /\ Event("none")
    /\ MakesNoCall("")
    /\ UNCHANGED <<date, price, halfOff, version, tokenField, rows>>

\* The text of the alert when a handler rejects the fields before it calls
\* the codec, "" when it does not; the handlers differ in one message only
FieldError(emptyPrice) ==
    IF ~DateTest(Trim(date)) THEN "Date must be YYYYMMDD"
    ELSE IF Len(Trim(price)) = 0 THEN emptyPrice
    ELSE priceStringToCents(Trim(price)).err

\* parseInt(d.slice(0,4),10), parseInt(d.slice(4,6),10) and
\* parseInt(d.slice(6,8),10) of the trimmed date field
YearOf(d) == ParseInt(Slice(d, 0, 4))

MonthOf(d) == ParseInt(Slice(d, 4, 6))

DayOf(d) == ParseInt(Slice(d, 6, 8))

\* The click handler of the Generate button
Gen ==
    /\ events < MaxEvents
    /\ Event("gen")
    /\ UNCHANGED <<date, price, halfOff, version, rows>>
    /\ LET d == Trim(date)
           err == FieldError("Enter price or run OCR")
           c == priceStringToCents(Trim(price)).value
           finalCents == FinalCents(c, halfOff)
       IN  IF err # ""
           THEN /\ MakesNoCall(err)
                /\ UNCHANGED <<variantField, tokenField>>
           ELSE IF version = "v1"
           THEN LET r == encodeV1(YearOf(d), MonthOf(d), DayOf(d), finalCents)
                IN  /\ CodecCall("encodeV1", YearOf(d), MonthOf(d), DayOf(d),
                                 finalCents, Undefined, r)
                    /\ tokenField' = IF r.ok THEN r.token ELSE tokenField
                    /\ UNCHANGED variantField
           ELSE \E rnd \in HandlerDraws :
                LET inputV == Trim(variantField)
                    v == IF inputV = << >> THEN Null ELSE ToNumber(inputV)
                    r == encodeV2(YearOf(d), MonthOf(d), DayOf(d),
                                  finalCents, v, rnd)
                IN  /\ CodecCall("encodeV2", YearOf(d), MonthOf(d), DayOf(d),
                                 finalCents, v, r)
                    /\ variantField' = IF r.ok THEN NumberToString(r.variant)
                                       ELSE variantField
                    /\ tokenField' = IF r.ok THEN r.token ELSE tokenField

\* The record the Save handler builds; created_at, lat, lon and images
\* take no part in the token and are left out
Row(d, c, half, finalCents, tok, ver, v) ==
    [date_yyyymmdd |-> d, price_cents |-> c, half_off |-> half,
     final_cents |-> finalCents, token |-> tok, version |-> ver,
     variant |-> v]

\* ver === 'v2' ? Number($('variant').value || '0') : null
RowVariant ==
    IF version = "v2"
    THEN ToNumber(IF variantField = << >> THEN <<"0">> ELSE variantField)
    ELSE Null

\* addRow(row): state.rows.unshift(row)
addRow(row) == rows' = <<row>> \o rows

\* The click handler of the Save button. The token is the trimmed token
\* field or, when that is empty, a fresh one from the codec. Reading a
\* selected photo may fail (photosRead), and then no record is added. The
\* upload that follows addRow changes nothing on the page.
Save ==
    /\ events < MaxEvents
    /\ Event("save")
    /\ UNCHANGED <<date, price, halfOff, version, variantField, tokenField>>
    /\ LET d == Trim(date)
           err == FieldError("Enter price")
           c == priceStringToCents(Trim(price)).value
           finalCents == FinalCents(c, halfOff)
           field == Trim(tokenField)
       IN  IF err # ""
           THEN /\ MakesNoCall(err)
                /\ UNCHANGED rows
           ELSE \E photosRead \in BOOLEAN :
                IF field # << >>
                THEN /\ MakesNoCall("")
                     /\ IF photosRead
                        THEN addRow(Row(d, c, halfOff, finalCents, field,
                                        version, RowVariant))
                        ELSE UNCHANGED rows
                ELSE \E rnd \in HandlerDraws :
                     LET r == IF version = "v1"
                              THEN encodeV1(YearOf(d), MonthOf(d), DayOf(d),
                                            finalCents)
                              ELSE encodeV2(YearOf(d), MonthOf(d), DayOf(d),
                                            finalCents, Undefined, rnd)
                     IN  /\ CodecCall(IF version = "v1" THEN "encodeV1"
                                      ELSE "encodeV2",
                                      YearOf(d), MonthOf(d), DayOf(d),
                                      finalCents, Undefined, r)
                         /\ IF r.ok /\ photosRead
                            THEN addRow(Row(d, c, halfOff, finalCents,
                                            r.token, version, RowVariant))
                            ELSE UNCHANGED rows

\* The click handler of the Clear button, once the user has confirmed:
\* clearRecords()
Clear ==
    /\ events < MaxEvents
    /\ rows # << >>
    /\ rows' = << >>
    /\ Event("none")
    /\ MakesNoCall("")
    /\ UNCHANGED <<date, price, halfOff, version, variantField, tokenField>>

UINext ==
    \/ EditDate
    \/ EditPrice
    \/ ToggleHalfOff
    \/ SelectVersion
    \/ EditVariant
    \/ Gen
    \/ Save
    \/ Clear

UISpec == UIInit /\ [][UINext]_vars

\* ------------------------------------------------------------------------
\* Properties of the page
\* ------------------------------------------------------------------------

\* The arguments of the call made by the last event
CallArgs == <<yyyy, mm, dd, cents, variant>>

\* C11: a call of encodeV1, or of encodeV2 with an explicit variant (a
\* number, not null, undefined or NaN), returns exactly what an earlier
\* call of the same function with the same arguments returned, whatever
\* was called and whatever happened on the page in between.
C11_Deterministic ==
    (/\ op \in Codec
     /\ kept.fn = op
     /\ kept.args = CallArgs
     /\ (op = "encodeV2" => ~VariantIsAbsent(variant)))
    => kept.ret = ret

\* encodeV1 is called a second time with the arguments of a kept call,
\* after a record was added to state.rows in between.
C11_Witness ==
    /\ op = "encodeV1"
    /\ kept.fn = op
    /\ kept.args = CallArgs
    /\ kept.at < events
    /\ kept.nrows < Len(rows)
    /\ ret.ok
    /\ kept.ret = ret

\* The last event was a click on Generate or Save that reached the codec
HandlerCalledCodec == handler \in {"gen", "save"} /\ op \in Codec

\* exactly 8 digits
EightDigits(str) == Len(str) = 8 /\ IsAllDigits(str)

\* The price field parses, and the amount passed is the parsed price or,
\* with half-off checked, half of it rounded
PriceWasParsed ==
    /\ Trim(price) # << >>
    /\ priceStringToCents(price).ok
    /\ cents = FinalCents(priceStringToCents(price).value, halfOff)

\* C12 as stated: a handler reaches the codec only when the date field
\* is exactly 8 digits and the price was parsed, and then the year, month,
\* day and amount, and the variant that Generate passes to encodeV2, are
\* all integers.
C12_OnlyValidatedIntegers ==
    HandlerCalledCodec =>
        /\ EightDigits(date)
        /\ PriceWasParsed
        /\ NumberIsInteger(yyyy)
        /\ NumberIsInteger(mm)
        /\ NumberIsInteger(dd)
        /\ NumberIsInteger(cents)
        /\ (handler = "gen" /\ op = "encodeV2" => NumberIsInteger(variant))

\* C12, amended: a handler reaches the codec only when the date field
\* without its surrounding white space is exactly 8 digits and the price
\* was parsed, and then the year, month, day and amount are integers. The
\* variant need not be one: Save passes none, and Generate passes null
\* for an empty variant field and Number(field) otherwise, which may be
\* NaN or a fraction.
C12_ValidatedBeforeCodec ==
    HandlerCalledCodec =>
        /\ EightDigits(Trim(date))
        /\ PriceWasParsed
        /\ NumberIsInteger(yyyy)
        /\ NumberIsInteger(mm)
        /\ NumberIsInteger(dd)
        /\ NumberIsInteger(cents)
        /\ (handler = "save" => variant = Undefined)
        /\ (handler = "gen" /\ op = "encodeV2"
              => variant = Null \/ variant.t \in {"num", "nan"})

\* Generate reaches encodeV2 with a date field that has a leading blank,
\* half of an odd price and a variant that is not an integer.
C12_Witness ==
    /\ handler = "gen"
    /\ op = "encodeV2"
    /\ ret.ok
    /\ date # Trim(date)
    /\ halfOff
    /\ cents = N(1000)
    /\ ~NumberIsInteger(variant)

\* The bytes of a record's token that hold the date and the amount: all
\* six bytes of a v1 token, the bytes after the variant byte of a v2 token
PayloadOf(row) ==
    LET r == b64UrlDecode(row.token)
    IN  IF row.version = "v1" \/ r.bytes = << >> THEN r.bytes
        ELSE Tail(r.bytes)

\* The token of the record encodes the record's own date and final price
TokenEncodesRow(row) ==
    LET d == row.date_yyyymmdd
    IN  /\ b64UrlDecode(row.token).ok
        /\ packDateAmount(YearOf(d), MonthOf(d), DayOf(d),
                          row.final_cents) = RetBytes(PayloadOf(row))

\* C13: every record in state.rows has a token that encodes the record's
\* own date_yyyymmdd and final_cents under the record's version.
C13_TokenMatchesRecord ==
    \A i \in 1..Len(rows) : TokenEncodesRow(rows[i])

\* The variant byte a token carries: the first byte it decodes to
VariantByteOf(tok) == b64UrlDecode(tok).bytes[1]

\* C14: the variant field of every v2 record in state.rows is the variant
\* byte carried in the record's token.
C14_VariantMatchesToken ==
    \A i \in 1..Len(rows) :
        rows[i].version = "v2" =>
            /\ b64UrlDecode(rows[i].token).ok
            /\ rows[i].variant = N(VariantByteOf(rows[i].token))

=============================================================================
